---- MODULE Spec2Model ----
(***************************************************************************)
(* Clinical decision-support chatbot (src/app.py): the symptom extraction, *)
(* disease scoring and ranking engine and the /predict request handler.    *)
(*                                                                         *)
(* Python strings are modelled as sequences of one-character strings, so   *)
(* that lower(), strip() and the substring test `in` are computed and not  *)
(* assumed.  A pandas cell is a string or NaN.  A dataframe is a sequence  *)
(* of rows, each row a record over the column names.  A Python dict is a   *)
(* sequence of <<key, value>> pairs with distinct keys, in insertion       *)
(* order.  The iteration order of a Python set is fixed by the hash seed   *)
(* of the process (PYTHONHASHSEED, drawn at process start).                *)
(***************************************************************************)
EXTENDS Integers, Sequences, FiniteSets

VARIABLES
    symptoms_df,          \* DATASETS['symptoms']
    medications_df,       \* DATASETS['medications']
    precautions_df,       \* DATASETS['precautions']
    descriptions_df,      \* DATASETS['descriptions']
    diet_df,              \* DATASETS['diet']
    hashSeed,             \* string hash seed of the running process
    request,              \* the last HTTP request handled
    response,             \* the response returned for it
    calls,                \* pipeline stages invoked while handling it
    user_text,            \* engine harness: argument of extract_symptoms
    matched_symptoms,     \* engine harness: result of extract_symptoms
    disease_scores,       \* engine harness: result / argument (score dict)
    top_diseases_ranked,  \* engine harness: result of rank_diseases
    reasoning_text,       \* engine harness: result of generate_reasoning
    first_reply,          \* history: the first /predict request the process
                          \* handled and the response it gave
    pc                    \* engine harness: position in the pipeline

vars == <<symptoms_df, medications_df, precautions_df, descriptions_df, diet_df,
          hashSeed, request, response, calls,
          user_text, matched_symptoms, disease_scores, top_diseases_ranked,
          reasoning_text, first_reply, pc>>

tables == <<symptoms_df, medications_df, precautions_df, descriptions_df, diet_df>>
server == <<request, response, calls>>
harness == <<user_text, matched_symptoms, disease_scores, top_diseases_ranked,
             reasoning_text, first_reply, pc>>

-----------------------------------------------------------------------------
(* Bounds of the model *)

\* longest free text given to extract_symptoms in the engine harness
MaxTextLen == 3
\* most rows of the symptoms table in the engine harness
MaxRows == 2
\* most entries of a score dict given to rank_diseases in the harness
MaxScores == 4
\* highest score in a score dict given to rank_diseases in the harness
MaxScore == 3
\* number of distinct hash seeds a process can start with
NumHashSeeds == 6
\* most matched symptoms given to generate_reasoning in the harness
MaxReasonSymptoms == 2
\* highest score given to generate_reasoning in the harness
MaxReasonScore == 4

-----------------------------------------------------------------------------
(* Python strings *)

\* float('nan'): the value pandas gives a missing cell; not a string
NaN == <<"NaN">>

isinstance_str(v) == v # NaN

Lower(c) ==
    CASE c = "A" -> "a"
      [] c = "B" -> "b"
      [] c = "F" -> "f"
      [] c = "G" -> "g"
      [] c = "H" -> "h"
      [] c = "K" -> "k"
      [] c = "M" -> "m"
      [] c = "P" -> "p"
      [] OTHER -> c

str_lower(s) == [i \in 1..Len(s) |-> Lower(s[i])]

Whitespace == {" "}

RECURSIVE str_lstrip(_)
str_lstrip(s) ==
    IF s # <<>> /\ Head(s) \in Whitespace THEN str_lstrip(Tail(s)) ELSE s

RECURSIVE str_rstrip(_)
str_rstrip(s) ==
    IF s # <<>> /\ s[Len(s)] \in Whitespace
    THEN str_rstrip(SubSeq(s, 1, Len(s) - 1))
    ELSE s

str_strip(s) == str_rstrip(str_lstrip(s))

\* Python's `sub in s` for strings
str_contains(sub, s) ==
    \E i \in 0..(Len(s) - Len(sub)) : SubSeq(s, i + 1, i + Len(sub)) = sub

Range(seq) == {seq[i] : i \in 1..Len(seq)}

RECURSIVE SeqsUpTo(_, _)
SeqsUpTo(S, n) ==
    IF n = 0 THEN {<<>>}
    ELSE LET shorter == SeqsUpTo(S, n - 1)
         IN shorter \cup {Append(q, x) : q \in {r \in shorter : Len(r) = n - 1}, x \in S}

-----------------------------------------------------------------------------
(* Python sets and dicts *)

RECURSIVE CanonicalSeq(_)
CanonicalSeq(S) ==
    IF S = {} THEN <<>>
    ELSE LET x == CHOOSE y \in S : TRUE
         IN <<x>> \o CanonicalSeq(S \ {x})

RemoveAt(seq, i) == SubSeq(seq, 1, i - 1) \o SubSeq(seq, i + 1, Len(seq))

RECURSIVE NthPermutation(_, _)
NthPermutation(seq, k) ==
    IF seq = <<>> THEN <<>>
    ELSE LET i == (k % Len(seq)) + 1
         IN <<seq[i]>> \o NthPermutation(RemoveAt(seq, i), k \div Len(seq))

\* list(S) / `for x in S` of a set S: an order fixed by the hash seed of the
\* process; over the seeds every order of a set of up to three elements
\* occurs, and six orders of a set of four
set_iter(S) == NthPermutation(CanonicalSeq(S), hashSeed)

dict_keys(d) == {d[i][1] : i \in 1..Len(d)}

-----------------------------------------------------------------------------
(* Dataframes *)

df_empty(df) == df = <<>>

df_columns(df) == DOMAIN df[1]

\* col.startswith('Symptom')
startswith_Symptom(col) == col \in {"Symptom_1", "Symptom_2"}

\* [col for col in symptoms_df.columns if col.startswith('Symptom')]
symptom_columns == {col \in df_columns(symptoms_df) : startswith_Symptom(col)}

\* symptoms_df[col].dropna().str.lower().str.strip().unique()
column_symptoms(col) ==
    {str_strip(str_lower(symptoms_df[i][col])) :
        i \in {j \in 1..Len(symptoms_df) : symptoms_df[j][col] # NaN}}

known_symptoms == UNION {column_symptoms(col) : col \in symptom_columns}

-----------------------------------------------------------------------------
(* extract_symptoms *)

\* .str on a column that holds no string (every cell NaN, read as float64)
\* raises AttributeError, which the except block of extract_symptoms catches
raises_AttributeError ==
    \E col \in symptom_columns :
        \A i \in 1..Len(symptoms_df) : symptoms_df[i][col] = NaN

extract_symptoms(text) ==
    IF df_empty(symptoms_df) THEN <<>>
    ELSE IF raises_AttributeError THEN <<>>
    ELSE LET user_text_lower == str_lower(text)
         IN SelectSeq(set_iter(known_symptoms),
                      LAMBDA symptom :
                          symptom # <<>> /\ str_contains(symptom, user_text_lower))

-----------------------------------------------------------------------------
(* match_diseases *)

\* the lower-cased, trimmed string cells of one row
row_symptoms(row) ==
    {str_strip(str_lower(row[col])) :
        col \in {c \in symptom_columns : row[c] # <<>> /\ isinstance_str(row[c])}}

matching_rows(symptom) ==
    {i \in 1..Len(symptoms_df) : symptom \in row_symptoms(symptoms_df[i])}

\* row['Disease'] raises KeyError when the table has no Disease column
raises_KeyError(matched) ==
    \E k \in 1..Len(matched) : \E i \in matching_rows(matched[k]) :
        "Disease" \notin DOMAIN symptoms_df[i]

\* a slip: only the first row of each disease is looked at
matching_diseases_first_row(symptom) ==
    {symptoms_df[i].Disease :
        i \in {j \in matching_rows(symptom) :
                 \A k \in 1..(j - 1) : symptoms_df[k].Disease # symptoms_df[j].Disease}}

matching_diseases(symptom) ==
    {symptoms_df[i].Disease : i \in matching_rows(symptom)}

\* if disease not in disease_scores: disease_scores[disease] = 0
\* disease_scores[disease] += 1
dict_increment(d, k) ==
    IF k \in dict_keys(d)
    THEN [i \in 1..Len(d) |-> IF d[i][1] = k THEN <<k, d[i][2] + 1>> ELSE d[i]]
    ELSE Append(d, <<k, 1>>)

RECURSIVE increment_all(_, _)
increment_all(d, diseases) ==
    IF diseases = <<>> THEN d
    ELSE increment_all(dict_increment(d, Head(diseases)), Tail(diseases))

\* a slip: one increment per matching row instead of per unique disease
accumulate_scores_per_row(matched) ==
    LET RECURSIVE rows_of(_, _)
        rows_of(symptom, i) ==
            IF i > Len(symptoms_df) THEN <<>>
            ELSE (IF symptom \in row_symptoms(symptoms_df[i])
                  THEN <<symptoms_df[i].Disease>> ELSE <<>>) \o rows_of(symptom, i + 1)
        RECURSIVE loop(_, _)
        loop(d, k) ==
            IF k > Len(matched) THEN d
            ELSE loop(increment_all(d, rows_of(matched[k], 1)), k + 1)
    IN loop(<<>>, 1)

\* the loop `for symptom in matched_symptoms` (lines 196-216)
accumulate_scores(matched) ==
    LET RECURSIVE loop(_, _)
        loop(d, k) ==
            IF k > Len(matched) THEN d
            ELSE loop(increment_all(d, set_iter(matching_diseases(matched[k]))), k + 1)
    IN loop(<<>>, 1)

\* list.insert keeping score order; an equal score goes after those present
RECURSIVE insert_by_score(_, _)
insert_by_score(sorted, item) ==
    IF sorted = <<>> THEN <<item>>
    ELSE IF Head(sorted)[2] >= item[2]
         THEN <<Head(sorted)>> \o insert_by_score(Tail(sorted), item)
         ELSE <<item>> \o sorted

\* sorted(items, key=lambda x: x[1], reverse=True): stable
RECURSIVE sorted_by_score_desc(_)
sorted_by_score_desc(items) ==
    IF items = <<>> THEN <<>>
    ELSE insert_by_score(sorted_by_score_desc(SubSeq(items, 1, Len(items) - 1)),
                         items[Len(items)])

match_diseases(matched) ==
    IF df_empty(symptoms_df) \/ matched = <<>> THEN <<>>
    ELSE IF raises_KeyError(matched) THEN <<>>
    ELSE sorted_by_score_desc(accumulate_scores(matched))

-----------------------------------------------------------------------------
(* rank_diseases *)

\* ranked[:3]
TopN == 3

\* a slip: the scores are cut to three without sorting them first
rank_diseases_unsorted(scores) ==
    IF scores = <<>> THEN <<>>
    ELSE SubSeq(scores, 1, IF Len(scores) < TopN THEN Len(scores) ELSE TopN)

\* a slip: the sorted scores are cut one entry short
rank_diseases_cut_short(scores) ==
    IF scores = <<>> THEN <<>>
    ELSE LET ranked == sorted_by_score_desc(scores)
         IN SubSeq(ranked, 1, IF Len(ranked) < TopN - 1 THEN Len(ranked) ELSE TopN - 1)

rank_diseases(scores) ==
    IF scores = <<>> THEN <<>>
    ELSE LET ranked == sorted_by_score_desc(scores)
         IN SubSeq(ranked, 1, IF Len(ranked) < TopN THEN Len(ranked) ELSE TopN)

-----------------------------------------------------------------------------
(* generate_reasoning *)

\* a reasoning text, kept as the parts the f-strings put together
Reasoning(opening, score, symptoms, disease, note) ==
    [opening |-> opening, score |-> score, symptom_string |-> symptoms,
     disease |-> disease, confidence_note |-> note, others |-> <<>>,
     consult |-> FALSE]

\* a slip: the strong-overlap wording starts above 3 instead of at 3
generate_reasoning_above_three(matched, disease, score) ==
    IF matched = <<>> \/ score = 0
    THEN Reasoning("Unable to generate reasoning for", 0, <<>>, disease, "")
    ELSE Reasoning("The prediction is based on the presence of", score, matched, disease,
                   IF score > 3
                   THEN "The strong symptom overlap indicates a high likelihood of this condition."
                   ELSE IF score = 2
                   THEN "The moderate symptom overlap suggests this condition is worth investigating."
                   ELSE "While symptoms are present, further evaluation is recommended.")

generate_reasoning(matched, disease, score) ==
    IF matched = <<>> \/ score = 0
    THEN Reasoning("Unable to generate reasoning for", 0, <<>>, disease, "")
    ELSE Reasoning("The prediction is based on the presence of", score, matched, disease,
                   IF score >= 3
                   THEN "The strong symptom overlap indicates a high likelihood of this condition."
                   ELSE IF score = 2
                   THEN "The moderate symptom overlap suggests this condition is worth investigating."
                   ELSE "While symptoms are present, further evaluation is recommended.")

-----------------------------------------------------------------------------
(* parse_string_list and get_disease_details *)

\* A Medication or Diet cell is text that ast.literal_eval reads as a list
\* (items: its elements), as some other literal, or not at all; or it is NaN.
ListCell(items) == [literal |-> "list", items |-> items]
ScalarCell == [literal |-> "scalar", items |-> <<>>]
InvalidCell == [literal |-> "invalid", items |-> <<>>]
NaNCell == [literal |-> "nan", items |-> <<>>]

parse_string_list(string_value) ==
    IF string_value.literal = "nan" THEN <<>>
    ELSE IF string_value.literal = "invalid" THEN <<>>
    ELSE IF string_value.literal = "list"
         THEN [i \in 1..Len(string_value.items) |-> str_strip(string_value.items[i])]
         ELSE <<>>

\* df[df['Disease'].str.lower() == disease_name.lower()]
rows_of_disease(df, disease_name) ==
    SelectSeq(df, LAMBDA row : str_lower(row.Disease) = str_lower(disease_name))

RECURSIVE flatten(_)
flatten(lists) ==
    IF lists = <<>> THEN <<>> ELSE Head(lists) \o flatten(Tail(lists))

Dosage == "As prescribed by healthcare provider"

get_disease_details(disease_name) ==
    LET desc_row == rows_of_disease(descriptions_df, disease_name)
        med_rows == rows_of_disease(medications_df, disease_name)
        prec_rows == rows_of_disease(precautions_df, disease_name)
        diet_rows == rows_of_disease(diet_df, disease_name)
        parsed_meds ==
            flatten([i \in 1..Len(med_rows) |-> parse_string_list(med_rows[i].Medication)])
    IN [description |->
            IF desc_row # <<>> THEN desc_row[1].Description ELSE "No description available",
        medications |->
            [i \in 1..Len(parsed_meds) |-> [name |-> parsed_meds[i], dosage |-> Dosage]],
        precautions |-> [i \in 1..Len(prec_rows) |-> prec_rows[i].Precaution],
        diet |->
            [recommended |->
                flatten([i \in 1..Len(diet_rows) |-> parse_string_list(diet_rows[i].Diet)]),
             avoid |-> <<>>]]

-----------------------------------------------------------------------------
(* predict *)

DISCLAIMER == "MEDICAL DISCLAIMER ... NOT a final medical diagnosis ..."

MIN_SYMPTOMS == 1

ErrorText(msg, detail) == [msg |-> msg, detail |-> detail]

\* JSON values of a request body, as request.get_json() returns them
JsonNull == [type |-> "null", keys |-> {}, symptoms |-> [type |-> "none", val |-> <<>>]]
JsonObject(keys, symptoms) == [type |-> "object", keys |-> keys, symptoms |-> symptoms]
JsonStr(s) == [type |-> "str", val |-> s]
JsonNum == [type |-> "num", val |-> <<>>]

\* `not data`: None and the empty object are falsy
data_falsy(data) == data.type = "null" \/ data.keys = {}

\* data.get('symptoms', '')
data_get_symptoms(data) ==
    IF "symptoms" \in data.keys THEN data.symptoms ELSE JsonStr(<<>>)

no_json_response ==
    [error |-> ErrorText("No JSON data provided", <<>>),
     success |-> FALSE,
     disclaimer |-> DISCLAIMER]

empty_symptoms_response ==
    [error |-> ErrorText("Symptoms field is required and cannot be empty", <<>>),
     success |-> FALSE,
     disclaimer |-> DISCLAIMER]

\* a slip: the handler of an unexpected exception leaves the disclaimer out
exception_response_bare ==
    [error |-> ErrorText("Internal server error: ", <<>>),
     success |-> FALSE]

exception_response ==
    [error |-> ErrorText("Internal server error: ", <<>>),
     success |-> FALSE,
     disclaimer |-> DISCLAIMER]

FailureEnvelope(error, text, matched, reasoning, description) ==
    [success |-> FALSE,
     error |-> error,
     received_symptoms |-> text,
     matched_symptoms |-> matched,
     diseases |-> <<>>,
     reasoning |-> Reasoning(reasoning, 0, <<>>, <<>>, ""),
     description |-> description,
     medications |-> <<>>,
     precautions |-> <<>>,
     diet |-> [recommended |-> <<>>, avoid |-> <<>>],
     disclaimer |-> DISCLAIMER]

insufficient_response(text, matched) ==
    FailureEnvelope(
        ErrorText("Insufficient symptoms. Please provide at least 1 known medical symptom(s). You entered: ", text),
        text, matched,
        "Analysis requires at least 1 known symptom(s) to proceed.",
        "Unable to analyze - insufficient symptom data")

\* a slip: the no-match failure reuses the insufficient-symptoms wording
no_match_response_same_error(text, matched) ==
    insufficient_response(text, matched)

no_match_response(text, matched) ==
    FailureEnvelope(
        ErrorText("No diseases could be matched to the provided symptoms.", <<>>),
        text, matched,
        "While symptoms were recognized, no disease associations exist in the database.",
        "Analysis incomplete - no disease mapping available")

rank_failure_response(text, matched) ==
    FailureEnvelope(
        ErrorText("Unable to rank diseases.", <<>>),
        text, matched,
        "Disease ranking failed.",
        "Analysis incomplete - ranking error")

\* a slip: the confidence is cut to two decimals instead of rounded
confidence_truncated(score, n) ==
    LET ratio == IF n > 0 THEN (IF score > n THEN n ELSE score) ELSE 0
        d == IF n > 0 THEN n ELSE 1
    IN (100 * ratio) \div d

\* round(min(score / len(matched_symptoms), 1.0), 2), in hundredths.  A
\* quotient exactly half way between two hundredths needs a denominator that
\* is a multiple of 8; those quotients are exact floats and round to even.
confidence(score, n) ==
    LET ratio == IF n > 0 THEN (IF score > n THEN n ELSE score) ELSE 0
        d == IF n > 0 THEN n ELSE 1
        q == (100 * ratio) \div d
        r == (100 * ratio) % d
    IN IF 2 * r < d THEN q
       ELSE IF 2 * r > d THEN q + 1
       ELSE IF q % 2 = 0 THEN q ELSE q + 1

\* a slip: every medication of every ranked disease is listed
unique_by_name_keep_all(meds) == meds

\* the seen_meds loop (lines 674-680)
RECURSIVE unique_by_name(_)
unique_by_name(meds) ==
    IF meds = <<>> THEN <<>>
    ELSE LET init == unique_by_name(SubSeq(meds, 1, Len(meds) - 1))
             last == meds[Len(meds)]
         IN IF \E i \in 1..Len(init) : init[i].name = last.name
            THEN init ELSE Append(init, last)

\* list(dict.fromkeys(items))
RECURSIVE dict_fromkeys(_)
dict_fromkeys(items) ==
    IF items = <<>> THEN <<>>
    ELSE LET init == dict_fromkeys(SubSeq(items, 1, Len(items) - 1))
             last == items[Len(items)]
         IN IF last \in Range(init) THEN init ELSE Append(init, last)

\* a slip: only the top disease's details are collected
details_of_top_only(top) ==
    IF top = <<>> THEN <<>>
    ELSE <<get_disease_details(top[1][1])>>
            \o [i \in 1..(Len(top) - 1) |->
                   [description |-> "No description available",
                    medications |-> <<>>,
                    precautions |-> <<>>,
                    diet |-> [recommended |-> <<>>, avoid |-> <<>>]]]

\* diseases_details: the details of each ranked disease, in rank order
RECURSIVE details_of(_)
details_of(top) ==
    IF top = <<>> THEN <<>>
    ELSE <<get_disease_details(Head(top)[1])>> \o details_of(Tail(top))

\* the response built from the ranked diseases and their details
\* (lines 609-696)
build_response(text, matched, top, details) ==
    LET diseases_list ==
            [i \in 1..Len(top) |->
                [rank |-> i, name |-> top[i][1],
                 confidence |-> confidence(top[i][2], Len(matched)),
                 symptom_count |-> top[i][2]]]
        top_disease == top[1][1]
        top_score == top[1][2]
        reasoning == generate_reasoning(matched, top_disease, top_score)
        other_diseases ==
            [i \in 1..(Len(top) - 1) |-> <<top[i + 1][1], top[i + 1][2]>>]
        all_medications == flatten([i \in 1..Len(top) |-> details[i].medications])
        all_precautions == flatten([i \in 1..Len(top) |-> details[i].precautions])
        recommended == UNION {Range(details[i].diet.recommended) : i \in 1..Len(top)}
        avoid == UNION {Range(details[i].diet.avoid) : i \in 1..Len(top)}
    IN [success |-> TRUE,
        received_symptoms |-> text,
        matched_symptoms |-> matched,
        diseases |-> diseases_list,
        reasoning |-> [reasoning EXCEPT !.others = other_diseases, !.consult = TRUE],
        description |-> details[1].description,
        medications |-> unique_by_name(all_medications),
        precautions |-> dict_fromkeys(all_precautions),
        diet |-> [recommended |-> set_iter(recommended), avoid |-> set_iter(avoid)],
        disclaimer |-> DISCLAIMER]

\* the one element of a singleton set: {F(x) : x \in {e}} evaluates e once
TheOne(S) == CHOOSE r \in S : TRUE

success_response(text, matched, top) ==
    TheOne({build_response(text, matched, top, details) : details \in {details_of(top)}})

Reply(body, status, stages) == [body |-> body, status |-> status, calls |-> stages]

\* STEP 5: build the disease list and the response (lines 609-706)
predict_step5(text, matched, top) ==
    Reply(success_response(text, matched, top), 200,
          <<"extract_symptoms", "match_diseases", "rank_diseases">>
              \o [i \in 1..Len(top) |-> "get_disease_details"]
              \o <<"generate_reasoning">>)

\* STEP 4: rank the diseases (lines 591-607)
predict_step4(text, matched, scores) ==
    TheOne({ IF top = <<>>
             THEN Reply(rank_failure_response(text, matched), 500,
                        <<"extract_symptoms", "match_diseases", "rank_diseases">>)
             ELSE predict_step5(text, matched, top)
             : top \in {rank_diseases(scores)} })

\* STEP 2 and STEP 3: the symptom threshold, then the scores (lines 550-589)
predict_step2(text, matched) ==
    IF Len(matched) < MIN_SYMPTOMS
    THEN Reply(insufficient_response(text, matched), 400, <<"extract_symptoms">>)
    ELSE TheOne({ IF scores = <<>>
                  THEN Reply(no_match_response(text, matched), 400,
                             <<"extract_symptoms", "match_diseases">>)
                  ELSE predict_step4(text, matched, scores)
                  : scores \in {match_diseases(matched)} })

\* STEP 1 to the end of the try block (lines 547-706)
predict_pipeline(symptoms_text) ==
    TheOne({predict_step2(symptoms_text, matched) :
               matched \in {extract_symptoms(symptoms_text)}})

\* a slip: the symptoms are extracted before the input is validated
predict_extract_first(req) ==
    IF req.get_json_raises THEN Reply(exception_response, 500, <<"extract_symptoms">>)
    ELSE IF data_falsy(req.data) THEN Reply(no_json_response, 400, <<"extract_symptoms">>)
    ELSE IF data_get_symptoms(req.data).type # "str"
    THEN Reply(exception_response, 500, <<"extract_symptoms">>)
    ELSE LET symptoms_text == str_strip(data_get_symptoms(req.data).val)
         IN IF symptoms_text = <<>>
            THEN Reply(empty_symptoms_response, 400, <<"extract_symptoms">>)
            ELSE predict_pipeline(symptoms_text)

\* the /predict handler: get_json() may raise (a body that is not JSON), and
\* .strip() raises on a symptoms value that is not a string; both end in the
\* handler's except block
predict(req) ==
    IF req.get_json_raises THEN Reply(exception_response, 500, <<>>)
    ELSE IF data_falsy(req.data) THEN Reply(no_json_response, 400, <<>>)
    ELSE IF data_get_symptoms(req.data).type # "str"
    THEN Reply(exception_response, 500, <<>>)
    ELSE LET symptoms_text == str_strip(data_get_symptoms(req.data).val)
         IN IF symptoms_text = <<>>
            THEN Reply(empty_symptoms_response, 400, <<>>)
            ELSE predict_pipeline(symptoms_text)

-----------------------------------------------------------------------------
(* the other routes and the error handlers *)

get_datasets_info ==
    LET info(df) ==
            [rows |-> Len(df),
             columns |-> IF df_empty(df) THEN {} ELSE df_columns(df)]
    IN [symptoms |-> info(symptoms_df),
        medications |-> info(medications_df),
        precautions |-> info(precautions_df),
        descriptions |-> info(descriptions_df),
        diet |-> info(diet_df),
        disclaimer |-> DISCLAIMER]

not_found ==
    [error |-> ErrorText("Endpoint not found", <<>>),
     status |-> 404,
     disclaimer |-> DISCLAIMER]

internal_error ==
    [error |-> ErrorText("Internal server error", <<>>),
     status |-> 500,
     disclaimer |-> DISCLAIMER]

-----------------------------------------------------------------------------
(* Engine harness: the pure functions applied to inputs drawn at Init *)

HashSeeds == 0..(NumHashSeeds - 1)

\* disease names as the tables spell them
DiseaseF == <<"F">>
DiseaseG == <<"G">>
DiseaseH == <<"H">>
DiseaseK == <<"K">>

SymptomRow(d, s1, s2) == [Disease |-> d, Symptom_1 |-> s1, Symptom_2 |-> s2]

\* rows of a symptoms table: tokens "a", "b", "ab" and the all-blank cell
EngineRows ==
    { SymptomRow(DiseaseF, <<"a">>, <<"B", " ">>),
      SymptomRow(DiseaseF, <<" ", "A">>, <<"a", "b">>),
      SymptomRow(DiseaseG, <<"a", "b">>, <<" ">>),
      SymptomRow(DiseaseG, NaN, <<"a">>),
      SymptomRow(DiseaseH, <<"b">>, NaN) }

\* the same table read from a file that has no Disease column
without_Disease(df) ==
    [i \in 1..Len(df) |->
        [Symptom_1 |-> df[i].Symptom_1, Symptom_2 |-> df[i].Symptom_2]]

EngineTables ==
    LET with == SeqsUpTo(EngineRows, MaxRows)
    IN with \cup {without_Disease(df) : df \in with}

EngineTexts == SeqsUpTo({"a", "B", "x"}, MaxTextLen)

RankDiseases == {DiseaseF, DiseaseG, DiseaseH, DiseaseK, <<"L">>}

\* score dicts: distinct diseases in any insertion order, any scores
RECURSIVE DictsUpTo(_)
DictsUpTo(n) ==
    IF n = 0 THEN {<<>>}
    ELSE LET shorter == DictsUpTo(n - 1)
         IN shorter \cup
            {Append(d, <<k, v>>) :
                <<d, k, v>> \in {<<e, j, w>> \in shorter \X RankDiseases \X (1..MaxScore) :
                                    Len(e) = n - 1 /\ j \notin dict_keys(e)}}

ScoreDicts == DictsUpTo(MaxScores)

NoReasoning == [none |-> TRUE]

NoReply == [none |-> TRUE]

NoRequest == [kind |-> "none", get_json_raises |-> FALSE, data |-> JsonNull]
NoResponse == [body |-> [none |-> TRUE], status |-> 0]

AuxEmpty ==
    /\ medications_df = <<>>
    /\ precautions_df = <<>>
    /\ descriptions_df = <<>>
    /\ diet_df = <<>>

ServerIdle ==
    /\ request = NoRequest
    /\ response = NoResponse
    /\ calls = <<>>

InitEngine ==
    /\ symptoms_df \in EngineTables
    /\ AuxEmpty
    /\ hashSeed \in HashSeeds
    /\ ServerIdle
    /\ user_text \in EngineTexts
    /\ matched_symptoms = <<>>
    /\ disease_scores = <<>>
    /\ top_diseases_ranked = <<>>
    /\ reasoning_text = NoReasoning
    /\ first_reply = NoReply
    /\ pc = "start"

InitRank ==
    /\ symptoms_df = <<>>
    /\ AuxEmpty
    /\ hashSeed = 0
    /\ ServerIdle
    /\ user_text = <<>>
    /\ matched_symptoms = <<>>
    /\ disease_scores \in ScoreDicts
    /\ top_diseases_ranked = <<>>
    /\ reasoning_text = NoReasoning
    /\ first_reply = NoReply
    /\ pc = "scored"

CallExtract ==
    /\ pc = "start"
    /\ matched_symptoms' = extract_symptoms(user_text)
    /\ pc' = "extracted"
    /\ UNCHANGED <<tables, hashSeed, server, user_text, disease_scores,
                   top_diseases_ranked, reasoning_text, first_reply>>

CallMatch ==
    /\ pc = "extracted"
    /\ disease_scores' = match_diseases(matched_symptoms)
    /\ pc' = "scored"
    /\ UNCHANGED <<tables, hashSeed, server, user_text, matched_symptoms,
                   top_diseases_ranked, reasoning_text, first_reply>>

CallRank ==
    /\ pc = "scored"
    /\ top_diseases_ranked' = rank_diseases(disease_scores)
    /\ pc' = "ranked"
    /\ UNCHANGED <<tables, hashSeed, server, user_text, matched_symptoms,
                   disease_scores, reasoning_text, first_reply>>

\* generate_reasoning applied to a list of symptoms and a top disease
ReasonSymptoms == SeqsUpTo({<<"a">>, <<"b">>, <<"a", "b">>}, MaxReasonSymptoms)

InitReasoning ==
    /\ symptoms_df = <<>>
    /\ AuxEmpty
    /\ hashSeed = 0
    /\ ServerIdle
    /\ user_text = <<>>
    /\ matched_symptoms \in ReasonSymptoms
    /\ disease_scores = <<>>
    /\ top_diseases_ranked \in {<< <<d, n>> >> : d \in {DiseaseF, DiseaseG}, n \in 0..MaxReasonScore}
    /\ reasoning_text = NoReasoning
    /\ first_reply = NoReply
    /\ pc = "ranked"

CallReasoning ==
    /\ pc = "ranked"
    /\ reasoning_text' = generate_reasoning(matched_symptoms, top_diseases_ranked[1][1],
                                            top_diseases_ranked[1][2])
    /\ pc' = "reasoned"
    /\ UNCHANGED <<tables, hashSeed, server, user_text, matched_symptoms,
                   disease_scores, top_diseases_ranked, first_reply>>

NextReasoning == CallReasoning

SpecReasoning == InitReasoning /\ [][NextReasoning]_vars

NextEngine == CallExtract \/ CallMatch

NextRank == CallRank

SpecEngine == InitEngine /\ [][NextEngine]_vars

SpecRank == InitRank /\ [][NextRank]_vars

-----------------------------------------------------------------------------
(* The server: reference tables loaded at startup, then requests *)

\* most characters of the symptoms text of a request
MaxRequestLen == 2

Prefixes(seq) == {SubSeq(seq, 1, n) : n \in 0..Len(seq)}

\* data/symptoms.csv: four diseases that share symptom "a"; F is recorded in
\* two rows; cells differ in case and padding; one cell is blank; the first
\* rows do not record symptom "b", and the first row alone leaves the column
\* Symptom_2 without a value
BaseSymptoms ==
    << SymptomRow(DiseaseG, <<"a">>, NaN),
       SymptomRow(DiseaseK, <<"a">>, <<" ">>),
       SymptomRow(DiseaseH, <<"A", " ">>, <<"a", "b">>),
       SymptomRow(DiseaseF, <<"a">>, <<"b">>),
       SymptomRow(DiseaseF, <<"a", "b">>, <<"a">>) >>

\* the file as it grew row by row, and the file without its Disease column
ServerSymptomTables ==
    Prefixes(BaseSymptoms) \cup {without_Disease(BaseSymptoms)}

\* data/medications.csv: G is keyed in lower case and repeats a name with
\* padding; F has two rows; H's cell is not a list; K has no row
BaseMedications ==
    << [Disease |-> DiseaseF, Medication |-> ListCell(<< <<"m">>, <<"n", " ">> >>)],
       [Disease |-> <<"g">>, Medication |-> ListCell(<< <<" ", "n">>, <<"p">>, <<"n">> >>)],
       [Disease |-> DiseaseH, Medication |-> InvalidCell],
       [Disease |-> DiseaseF, Medication |-> ListCell(<< <<"m">> >>)] >>

BasePrecautions ==
    << [Disease |-> DiseaseF, Precaution |-> "rest"],
       [Disease |-> DiseaseG, Precaution |-> "rest"],
       [Disease |-> <<"g">>, Precaution |-> "fluids"],
       [Disease |-> DiseaseH, Precaution |-> "fluids"] >>

BaseDescriptions ==
    << [Disease |-> DiseaseF, Description |-> "about F"],
       [Disease |-> <<"h">>, Description |-> "about H"] >>

BaseDiet ==
    << [Disease |-> DiseaseF, Diet |-> ListCell(<< <<"r">>, <<"s", " ">> >>)],
       [Disease |-> DiseaseG, Diet |-> ListCell(<< <<"s">> >>)],
       [Disease |-> DiseaseH, Diet |-> NaNCell],
       [Disease |-> DiseaseK, Diet |-> ScalarCell] >>

AuxBase ==
    /\ medications_df = BaseMedications
    /\ precautions_df = BasePrecautions
    /\ descriptions_df = BaseDescriptions
    /\ diet_df = BaseDiet

HarnessIdle ==
    /\ user_text = <<>>
    /\ matched_symptoms = <<>>
    /\ disease_scores = <<>>
    /\ top_diseases_ranked = <<>>
    /\ reasoning_text = NoReasoning
    /\ first_reply = NoReply
    /\ pc = "serving"

Init ==
    /\ symptoms_df \in ServerSymptomTables
    /\ AuxBase \/ AuxEmpty
    /\ hashSeed \in HashSeeds
    /\ ServerIdle
    /\ HarnessIdle

Request(kind, raises, data) == [kind |-> kind, get_json_raises |-> raises, data |-> data]

RequestTexts == SeqsUpTo({"a", "B", " "}, MaxRequestLen)

\* POST /predict with: a body that is not JSON; null; {}; an object without
\* "symptoms"; a number for "symptoms"; a text for "symptoms"
PredictRequests ==
    { Request("predict", TRUE, JsonNull),
      Request("predict", FALSE, JsonNull),
      Request("predict", FALSE, JsonObject({}, JsonNum)),
      Request("predict", FALSE, JsonObject({"age"}, JsonNum)),
      Request("predict", FALSE, JsonObject({"symptoms"}, JsonNum)) }
        \cup {Request("predict", FALSE, JsonObject({"symptoms"}, JsonStr(t))) :
                t \in RequestTexts}

Predict ==
    /\ pc = "serving"
    /\ \E req \in PredictRequests :
          \E reply \in {predict(req)} :
             /\ request' = req
             /\ response' = [body |-> reply.body, status |-> reply.status]
             /\ calls' = reply.calls
    /\ UNCHANGED <<tables, hashSeed, harness>>

DatasetsInfo ==
    /\ pc = "serving"
    /\ request' = Request("datasets", FALSE, JsonNull)
    /\ response' = [body |-> get_datasets_info, status |-> 200]
    /\ calls' = <<>>
    /\ UNCHANGED <<tables, hashSeed, harness>>

\* a request for a URL no route serves
NotFound ==
    /\ pc = "serving"
    /\ request' = Request("unknown", FALSE, JsonNull)
    /\ response' = [body |-> not_found, status |-> 404]
    /\ calls' = <<>>
    /\ UNCHANGED <<tables, hashSeed, harness>>

\* a view raises an exception it does not catch (index: render_template)
InternalError ==
    /\ pc = "serving"
    /\ request' = Request("index", FALSE, JsonNull)
    /\ response' = [body |-> internal_error, status |-> 500]
    /\ calls' = <<>>
    /\ UNCHANGED <<tables, hashSeed, harness>>

\* the process is started again on the same data files: load_datasets
\* builds the same tables, the interpreter draws a new hash seed
Restart ==
    /\ pc = "serving"
    /\ \E seed \in HashSeeds \ {hashSeed} : hashSeed' = seed
    /\ UNCHANGED <<tables, server, harness>>

Next == Predict \/ DatasetsInfo \/ NotFound \/ InternalError \/ Restart

Spec == Init /\ [][Next]_vars

-----------------------------------------------------------------------------
(* The server with the history of its first request *)

\* a slip: rows with a missing cell are dropped from the table in place
symptoms_df_dropna_inplace(req) ==
    IF req.get_json_raises \/ data_falsy(req.data) THEN symptoms_df
    ELSE SelectSeq(symptoms_df,
                   LAMBDA row : row.Symptom_1 # NaN /\ row.Symptom_2 # NaN)

\* DATASETS['symptoms'] after the handler: no statement of predict or of the
\* functions it calls assigns to the table or to one of its cells
symptoms_df_after_predict(req) == symptoms_df

FrameRequests ==
    { Request("predict", FALSE, JsonNull),
      Request("predict", FALSE, JsonObject({"symptoms"}, JsonStr(<<"a">>))),
      Request("predict", FALSE, JsonObject({"symptoms"}, JsonStr(<<"B">>))),
      Request("predict", FALSE, JsonObject({"symptoms"}, JsonStr(<<"a", "B">>))),
      Request("predict", FALSE, JsonObject({"symptoms"}, JsonStr(<<"x">>))) }

InitFrame ==
    /\ symptoms_df \in {BaseSymptoms, SubSeq(BaseSymptoms, 1, 3)}
    /\ AuxBase
    /\ hashSeed \in HashSeeds
    /\ ServerIdle
    /\ HarnessIdle

\* predict, with the history kept: the first request and its response, and
\* whether another request was handled since
PredictRecorded ==
    /\ pc = "serving"
    /\ \E req \in FrameRequests :
          \E reply \in {predict(req)} :
             /\ request' = req
             /\ response' = [body |-> reply.body, status |-> reply.status]
             /\ calls' = reply.calls
             /\ symptoms_df' = symptoms_df_after_predict(req)
             /\ first_reply' =
                   IF first_reply = NoReply
                   THEN [request |-> req,
                         response |-> [body |-> reply.body, status |-> reply.status],
                         others |-> FALSE]
                   ELSE [first_reply EXCEPT
                            !.others = first_reply.others \/ req # first_reply.request]
    /\ UNCHANGED <<medications_df, precautions_df, descriptions_df, diet_df, hashSeed,
                   user_text, matched_symptoms, disease_scores, top_diseases_ranked,
                   reasoning_text, pc>>

\* a new process has handled no request
RestartFrame ==
    /\ pc = "serving"
    /\ \E seed \in HashSeeds \ {hashSeed} : hashSeed' = seed
    /\ first_reply' = NoReply
    /\ UNCHANGED <<tables, server, user_text, matched_symptoms, disease_scores,
                   top_diseases_ranked, reasoning_text, pc>>

NextFrame == PredictRecorded \/ RestartFrame

SpecFrame == InitFrame /\ [][NextFrame]_vars

-----------------------------------------------------------------------------
(* Properties *)

\* the lower-cased, trimmed values of the Symptom* columns
Vocabulary ==
    {str_strip(str_lower(symptoms_df[i][col])) :
        <<i, col>> \in {<<j, c>> \in (1..Len(symptoms_df)) \X {"Symptom_1", "Symptom_2"} :
                           symptoms_df[j][c] # NaN}}

Extracted == pc \in {"extracted", "scored"}

\* C1: for every text and every symptoms table, extract_symptoms returns only
\* vocabulary tokens, and a vocabulary token (a non-empty string) is returned
\* exactly when it is a substring of the lower-cased input text (no
\* word-boundary check); a token that is not a substring of the lower-cased
\* text is never returned.
C1_ExtractExactlySubstrings ==
    Extracted =>
        /\ Range(matched_symptoms) \subseteq Vocabulary
        /\ \A t \in Vocabulary :
              t # <<>> =>
                  (t \in Range(matched_symptoms) <=> str_contains(t, str_lower(user_text)))

\* the diseases whose rows record at least one of the matched symptoms
DiseasesWithMatch ==
    {symptoms_df[i].Disease :
        i \in {j \in 1..Len(symptoms_df) :
                 /\ "Disease" \in DOMAIN symptoms_df[j]
                 /\ \E c \in {"Symptom_1", "Symptom_2"} :
                       /\ symptoms_df[j][c] # NaN
                       /\ str_strip(str_lower(symptoms_df[j][c])) \in Range(matched_symptoms)}}

\* C2: every entry of the mapping match_diseases returns has a score between
\* 1 and the number of matched symptoms, and a disease none of whose rows
\* records a matched symptom is absent from the mapping.
C2_ScoresInRange ==
    pc = "scored" =>
        /\ \A i \in 1..Len(disease_scores) :
              /\ disease_scores[i][2] >= 1
              /\ disease_scores[i][2] <= Len(matched_symptoms)
        /\ dict_keys(disease_scores) \subseteq DiseasesWithMatch

\* C2 witness: two symptoms matched, a disease recorded with the same symptom
\* in two rows scoring at the upper limit, and a disease of the table absent
C2_Witness ==
    /\ pc = "scored"
    /\ Len(matched_symptoms) = 2
    /\ \E i \in 1..Len(disease_scores) : disease_scores[i][2] = 2
    /\ Len(symptoms_df) = 2
    /\ symptoms_df[1].Disease = symptoms_df[2].Disease
    /\ row_symptoms(symptoms_df[1]) \cap row_symptoms(symptoms_df[2])
           \cap Range(matched_symptoms) # {}

\* C3: rank_diseases returns at most 3 entries, their scores non-increasing
\* from first to last; an empty mapping gives an empty sequence.
C3_RankAtMostThreeSorted ==
    pc = "ranked" =>
        /\ Len(top_diseases_ranked) <= 3
        /\ \A i \in 1..(Len(top_diseases_ranked) - 1) :
              top_diseases_ranked[i][2] >= top_diseases_ranked[i + 1][2]
        /\ disease_scores = <<>> => top_diseases_ranked = <<>>

\* C3 witness: four scored diseases given in increasing score order, cut to
\* three
C3_Witness ==
    /\ pc = "ranked"
    /\ Len(disease_scores) = 4
    /\ disease_scores[1][2] < disease_scores[4][2]
    /\ Len(top_diseases_ranked) = 3

-----------------------------------------------------------------------------
(* Properties of the /predict handler *)

Handled == response # NoResponse

PredictHandled == Handled /\ request.kind = "predict"

PredictSuccess == PredictHandled /\ response.status = 200

PredictFailure == PredictHandled /\ response.status # 200

\* the request carries a symptoms text that is not blank
HasText ==
    /\ request.kind = "predict"
    /\ ~request.get_json_raises
    /\ ~data_falsy(request.data)
    /\ "symptoms" \in request.data.keys
    /\ request.data.symptoms.type = "str"
    /\ str_strip(request.data.symptoms.val) # <<>>

RequestText == str_strip(request.data.symptoms.val)

Abs(x) == IF x < 0 THEN -x ELSE x

Min(x, y) == IF x < y THEN x ELSE y

\* C4: in every success response the confidence of each listed disease is
\* symptom_count / number of matched symptoms, capped at 1.0 and rounded to
\* 2 decimal places (the hundredth nearest to the capped quotient), and so
\* lies between 0.00 and 1.00.
C4_ConfidenceIsRoundedRatio ==
    PredictSuccess =>
        \A i \in 1..Len(response.body.diseases) :
            LET d == response.body.diseases[i]
                n == Len(response.body.matched_symptoms)
            IN /\ d.confidence \in 0..100
               /\ 2 * Abs(100 * Min(d.symptom_count, n) - d.confidence * n) <= n

\* C4 witness: three matched symptoms, one disease with two of them (0.67,
\* rounded up) and one with one of them (0.33, rounded down)
C4_Witness ==
    /\ PredictSuccess
    /\ Len(response.body.matched_symptoms) = 3
    /\ \E i, j \in 1..Len(response.body.diseases) :
          /\ response.body.diseases[i].symptom_count = 2
          /\ response.body.diseases[i].confidence = 67
          /\ response.body.diseases[j].symptom_count = 1
          /\ response.body.diseases[j].confidence = 33

NoRepeats(seq) == \A i, j \in 1..Len(seq) : seq[i] = seq[j] => i = j

\* C5: in every success response no two medications have the same name and
\* no two precautions have the same text.
C5_NoDuplicateMedicationsOrPrecautions ==
    PredictSuccess =>
        /\ NoRepeats([i \in 1..Len(response.body.medications) |->
                         response.body.medications[i].name])
        /\ NoRepeats(response.body.precautions)

\* C5 witness: two ranked diseases whose medication rows share a name and
\* whose precaution rows share a text
C5_Witness ==
    /\ PredictSuccess
    /\ \E i, j \in 1..Len(response.body.diseases) :
          LET di == get_disease_details(response.body.diseases[i].name)
              dj == get_disease_details(response.body.diseases[j].name)
          IN /\ i # j
             /\ \E a \in 1..Len(di.medications), b \in 1..Len(dj.medications) :
                   di.medications[a].name = dj.medications[b].name
             /\ Range(di.precautions) \cap Range(dj.precautions) # {}
    /\ response.body.medications # <<>>
    /\ response.body.precautions # <<>>

\* C6: calling predict again with the identical request and unchanged
\* reference data yields the identical response, whatever the iteration order
\* of the sets the pipeline builds.
C6_SameRequestSameResponse ==
    [][ (request.kind = "predict" /\ request' = request /\ tables' = tables)
            => response' = response ]_vars

\* C7: every response of predict, of the datasets route and of the 404 and
\* 500 handlers carries the disclaimer field, equal to DISCLAIMER; so does the
\* ranking-failure envelope.
C7_DisclaimerEverywhere ==
    /\ Handled =>
          /\ "disclaimer" \in DOMAIN response.body
          /\ response.body.disclaimer = DISCLAIMER
    /\ \A t \in RequestTexts : rank_failure_response(t, <<>>).disclaimer = DISCLAIMER

\* C7 witness: a request whose body is not JSON, answered by the except block
C7_Witness ==
    /\ PredictHandled
    /\ request.get_json_raises
    /\ response.status = 500
    /\ response.body.disclaimer = DISCLAIMER

EnvelopeFields ==
    {"success", "received_symptoms", "matched_symptoms", "diseases", "reasoning",
     "description", "medications", "precautions", "diet", "disclaimer"}

\* C8: every failure response of predict has success = false, an error field
\* and the fields of a success response, so that diseases, medications,
\* precautions and diet.recommended can be read from it.
C8_FailureHasFullEnvelope ==
    PredictFailure =>
        /\ EnvelopeFields \cup {"error"} \subseteq DOMAIN response.body
        /\ response.body.success = FALSE

\* the vocabulary tokens the text of the request contains
Recognized ==
    {t \in Vocabulary : t # <<>> /\ str_contains(t, str_lower(RequestText))}

\* the diseases whose rows record a recognized symptom
DiseasesRecognized ==
    {symptoms_df[i].Disease :
        i \in {j \in 1..Len(symptoms_df) :
                 /\ "Disease" \in DOMAIN symptoms_df[j]
                 /\ \E c \in {"Symptom_1", "Symptom_2"} :
                       /\ symptoms_df[j][c] # NaN
                       /\ str_strip(str_lower(symptoms_df[j][c])) \in Recognized}}

InsufficientError ==
    "Insufficient symptoms. Please provide at least 1 known medical symptom(s). You entered: "

NoMatchError == "No diseases could be matched to the provided symptoms."

FailsValidation ==
    /\ request.kind = "predict"
    /\ ~request.get_json_raises
    /\ \/ data_falsy(request.data)
       \/ "symptoms" \notin request.data.keys
       \/ /\ request.data.symptoms.type = "str"
          /\ str_strip(request.data.symptoms.val) = <<>>

\* C10: a request with no JSON data, no symptoms field or a blank symptoms
\* text is answered with the validation failure (status 400) and none of
\* extract_symptoms, match_diseases, rank_diseases, get_disease_details is
\* invoked for it; nor is any invoked for a body that is not JSON.
C10_NoStageOnInvalidInput ==
    /\ (Handled /\ FailsValidation) =>
          /\ calls = <<>>
          /\ response.status = 400
          /\ response.body.success = FALSE
          /\ DOMAIN response.body = {"error", "success", "disclaimer"}
    /\ (PredictHandled /\ request.get_json_raises) => calls = <<>>

\* C10 witness: a symptoms text of two blanks, refused with no stage invoked
C10_Witness ==
    /\ Handled
    /\ FailsValidation
    /\ "symptoms" \in request.data.keys
    /\ Len(request.data.symptoms.val) = 2
    /\ calls = <<>>
    /\ response.status = 400

-----------------------------------------------------------------------------
(* Properties of the scores *)

\* the rows of the table that name the disease
RowsNaming(disease) ==
    {i \in 1..Len(symptoms_df) :
        "Disease" \in DOMAIN symptoms_df[i] /\ symptoms_df[i].Disease = disease}

\* the lower-cased, trimmed symptoms some row of the disease records
SymptomsRecorded(disease) ==
    {str_strip(str_lower(symptoms_df[i][c])) :
        <<i, c>> \in {<<j, col>> \in RowsNaming(disease) \X {"Symptom_1", "Symptom_2"} :
                         symptoms_df[j][col] # NaN}}

DiseasesNamed ==
    {symptoms_df[i].Disease :
        i \in {j \in 1..Len(symptoms_df) : "Disease" \in DOMAIN symptoms_df[j]}}

\* C11: the score match_diseases gives a disease is the number of matched
\* symptoms that at least one row of the disease records (lower-cased,
\* trimmed): a symptom counts once however many rows of the disease record it,
\* the rows of a disease are taken together, and a disease with such a symptom
\* is scored.
C11_ScoreIsDistinctMatchedSymptoms ==
    pc = "scored" =>
        /\ \A i \in 1..Len(disease_scores) :
              disease_scores[i][2] =
                  Cardinality(Range(matched_symptoms) \cap SymptomsRecorded(disease_scores[i][1]))
        /\ \A d \in DiseasesNamed :
              Range(matched_symptoms) \cap SymptomsRecorded(d) # {} => d \in dict_keys(disease_scores)

\* C11 witness: a disease with two rows, one matched symptom recorded in both
\* rows and another recorded in the second row only, scored 3 of 3
C11_Witness ==
    /\ pc = "scored"
    /\ Len(symptoms_df) = 2
    /\ Len(matched_symptoms) = 3
    /\ disease_scores = << <<DiseaseF, 3>> >>
    /\ \E s \in Range(matched_symptoms) :
          s \in row_symptoms(symptoms_df[1]) \cap row_symptoms(symptoms_df[2])
    /\ \E s \in Range(matched_symptoms) :
          s \in row_symptoms(symptoms_df[2]) \ row_symptoms(symptoms_df[1])

\* the rows on which scoring faults: they record a recognized symptom, and
\* reading their disease raises KeyError
FaultyRows ==
    {j \in 1..Len(symptoms_df) :
        /\ "Disease" \notin DOMAIN symptoms_df[j]
        /\ \E c \in {"Symptom_1", "Symptom_2"} :
              /\ symptoms_df[j][c] # NaN
              /\ str_strip(str_lower(symptoms_df[j][c])) \in Recognized}

-----------------------------------------------------------------------------
(* Properties of generate_reasoning *)

UnableOpening == "Unable to generate reasoning for"

HighNote == "The strong symptom overlap indicates a high likelihood of this condition."

ModerateNote == "The moderate symptom overlap suggests this condition is worth investigating."

FurtherNote == "While symptoms are present, further evaluation is recommended."

\* C13: generate_reasoning words its confidence by the score alone: 3 or more
\* gives the high-likelihood sentence, 2 the moderate-overlap sentence, 1 the
\* further-evaluation sentence; an empty symptom list or score 0 gives the
\* unable-to-generate message; every input gets exactly one of the four.
C13_ReasoningWordingByScore ==
    pc = "reasoned" =>
        LET score == top_diseases_ranked[1][2]
            unable ==
                reasoning_text.opening = UnableOpening /\ reasoning_text.confidence_note = ""
            worded(note) ==
                reasoning_text.opening # UnableOpening /\ reasoning_text.confidence_note = note
            outcomes == <<unable, worded(HighNote), worded(ModerateNote), worded(FurtherNote)>>
        IN /\ (matched_symptoms = <<>> \/ score = 0) => unable
           /\ (matched_symptoms # <<>> /\ score >= 3) => worded(HighNote)
           /\ (matched_symptoms # <<>> /\ score = 2) => worded(ModerateNote)
           /\ (matched_symptoms # <<>> /\ score = 1) => worded(FurtherNote)
           /\ Cardinality({i \in 1..4 : outcomes[i]}) = 1
           /\ reasoning_text.disease = top_diseases_ranked[1][1]

\* C13 witness: one symptom in the list and a score of 3: the wording follows
\* the score, not the length of the list
C13_Witness ==
    /\ pc = "reasoned"
    /\ Len(matched_symptoms) = 1
    /\ top_diseases_ranked[1][2] = 3
    /\ reasoning_text.confidence_note = HighNote

-----------------------------------------------------------------------------
(* Properties of the aggregated medications and precautions *)

RankedNames ==
    [i \in 1..Len(response.body.diseases) |-> response.body.diseases[i].name]

\* the rows of an auxiliary table for a disease, whatever the case of its name
AuxRows(df, name) ==
    {i \in 1..Len(df) : str_lower(df[i].Disease) = str_lower(name)}

\* the medication names the table records for a disease, row by row
RecordedMedications(name) ==
    LET cell(i) == medications_df[i].Medication
        names(i) ==
            IF i \in AuxRows(medications_df, name) /\ cell(i).literal = "list"
            THEN [k \in 1..Len(cell(i).items) |-> str_strip(cell(i).items[k])]
            ELSE <<>>
    IN flatten([i \in 1..Len(medications_df) |-> names(i)])

\* the precaution texts the table records for a disease, row by row
RecordedPrecautions(name) ==
    flatten([i \in 1..Len(precautions_df) |->
                IF i \in AuxRows(precautions_df, name)
                THEN <<precautions_df[i].Precaution>> ELSE <<>>])

FirstIndex(seq, x) ==
    CHOOSE k \in 1..Len(seq) : seq[k] = x /\ \A m \in 1..(k - 1) : seq[m] # x

\* out holds each element of all once, in the order of first appearance
IsFirstSeen(out, all) ==
    /\ Range(out) = Range(all)
    /\ NoRepeats(out)
    /\ \A i, j \in 1..Len(out) :
          i < j => FirstIndex(all, out[i]) < FirstIndex(all, out[j])

\* C14: in every success response the medications are those of all ranked
\* diseases, visited in rank order, each name once in the order of its first
\* appearance, and so are the precautions; a ranked disease without a row in
\* an auxiliary table contributes nothing.
C14_UnionOverRankedFirstSeen ==
    PredictSuccess =>
        LET n == Len(RankedNames)
            all_meds == flatten([i \in 1..n |-> RecordedMedications(RankedNames[i])])
            all_precs == flatten([i \in 1..n |-> RecordedPrecautions(RankedNames[i])])
            med_names == [i \in 1..Len(response.body.medications) |->
                             response.body.medications[i].name]
        IN /\ IsFirstSeen(med_names, all_meds)
           /\ IsFirstSeen(response.body.precautions, all_precs)
           /\ \A i \in 1..Len(response.body.medications) :
                 response.body.medications[i].dosage = Dosage

\* C14 witness: a lower-ranked disease adds a medication and a precaution the
\* top disease lacks, a name the ranked diseases share is listed once, and a
\* ranked disease has no row in the medications table
C14_Witness ==
    /\ PredictSuccess
    /\ Len(RankedNames) >= 2
    /\ \E i \in 2..Len(RankedNames) :
          /\ Range(RecordedMedications(RankedNames[i]))
                 \ Range(RecordedMedications(RankedNames[1])) # {}
          /\ Range(RecordedPrecautions(RankedNames[i]))
                 \ Range(RecordedPrecautions(RankedNames[1])) # {}
          /\ Range(RecordedMedications(RankedNames[i]))
                 \cap Range(RecordedMedications(RankedNames[1])) # {}
    /\ \E i \in 1..Len(RankedNames) : AuxRows(medications_df, RankedNames[i]) = {}
    /\ medications_df # <<>>

-----------------------------------------------------------------------------
(* Properties of the reference tables *)

-----------------------------------------------------------------------------
(* Properties of the ranking *)

\* C16: for a score mapping of n entries rank_diseases returns exactly
\* min(3, n) entries, each an entry of the mapping with its score, no disease
\* twice, and no disease left out has a strictly higher score than a disease
\* included.
C16_RankIsTrueTopThree ==
    pc = "ranked" =>
        /\ Len(top_diseases_ranked) = Min(3, Len(disease_scores))
        /\ Range(top_diseases_ranked) \subseteq Range(disease_scores)
        /\ NoRepeats([i \in 1..Len(top_diseases_ranked) |-> top_diseases_ranked[i][1]])
        /\ \A out \in Range(disease_scores) \ Range(top_diseases_ranked) :
              \A in \in Range(top_diseases_ranked) : out[2] <= in[2]

\* C16 witness: four scored diseases, the highest score given last, two of
\* the three returned tied, and the one left out scoring strictly less
C16_Witness ==
    /\ pc = "ranked"
    /\ Len(disease_scores) = 4
    /\ Len(top_diseases_ranked) = 3
    /\ top_diseases_ranked[1] = disease_scores[4]
    /\ top_diseases_ranked[2][2] = top_diseases_ranked[3][2]
    /\ \E out \in Range(disease_scores) \ Range(top_diseases_ranked) :
          out[2] < top_diseases_ranked[3][2]

====
